---- MODULE Spec2Model ----
(***************************************************************************)
(* A model of pvharmo/fuse: the virtual filesystem tree (src/fstree.rs),   *)
(* the hydrator (FuseFS::get_children, src/fuse.rs) and the FUSE operation *)
(* handlers (src/fuse/attr.rs, dir.rs, node.rs, symlink.rs).               *)
(*                                                                         *)
(* The in-memory tree is the record `fs`; nodes are identified by their    *)
(* inode (the code never reuses one).  The indices of FsTree hold Weak     *)
(* references: an index entry resolves only while its node is still owned  *)
(* by some children vector, i.e. while the inode is in DOMAIN fs.nodes.    *)
(*                                                                         *)
(* The providers are the environment.  `remote[prov]` maps a path (a       *)
(* sequence of names below the provider root) to the object stored there.  *)
(* Object ids are path-based, as the handlers compose them                 *)
(* (parent.id + "/" + name).                                               *)
(***************************************************************************)
EXTENDS Integers, Sequences, FiniteSets, TLC

\* ------------------------------------------------------------------ bounds

\* Largest inode the model hands out: handlers that would need more are not taken.
MaxInode == 4
\* Longest object path (components below a provider root).
MaxDepth == 2
\* Longest file content and longest write payload.
MaxLen == 2
\* Largest readdir/read/write offset the kernel sends in the model.
MaxOffset == 3
\* The clock runs from 0 to MaxTime seconds.
MaxTime == 2
\* Largest inode the tree of blut.rs hands out.
MaxBlutInode == 5

\* File and directory names.  The two names make the path "fuse/mnt", which
\* get_children refuses to list, reachable at depth 2.
Names == {"fuse", "mnt"}
Bytes == {0, 1}

None == 0
ROOT_INO == 1

\* ---------------------------------------------------------------- helpers

Put(f, k, v) == [x \in (DOMAIN f) \cup {k} |-> IF x = k THEN v ELSE f[x]]
Del(f, k) == [x \in (DOMAIN f) \ {k} |-> f[x]]
Min(a, b) == IF a < b THEN a ELSE b
EmptyFn == [x \in {} |-> 0]
Range(s) == {s[k] : k \in 1..Len(s)}
SeqsUpTo(S, n) == UNION {[1..k -> S] : k \in 0..n}
IsPrefix(p, q) == Len(p) <= Len(q) /\ SubSeq(q, 1, Len(p)) = p
Front(s) == SubSeq(s, 1, Len(s) - 1)
Last(s) == s[Len(s)]
\* All orderings of a finite set, as sequences.
Perms(S) == {s \in [1..Cardinality(S) -> S] : Range(s) = S}
\* Rust's vec[a..b] on a sequence indexed from 0 (callers check a <= b <= len).
Slice(s, a, b) == SubSeq(s, a + 1, b)

\* ---------------------------------------------------------------- ObjectId

\* crossroads ObjectId: a path and the directory flag.
ObjectId_root == [path |-> <<>>, dir |-> TRUE]
ObjectId_new(parent_id, name, isdir) == [path |-> Append(parent_id.path, name), dir |-> isdir]
is_directory(id) == id.dir
\* path.as_str().contains("fuse/mnt")
ContainsFuseMnt(id) ==
    \E k \in 1..(Len(id.path) - 1) : id.path[k] = "fuse" /\ id.path[k + 1] = "mnt"

\* ------------------------------------------------------- fstree.rs: FsTree

\* SystemTime::now(), in whole seconds since the mount.
VARIABLE now

\* Duration::from_secs(1): how long after its creation a node expires.
ExpireAfter == 1

\* Option<SystemTime>: the expire_at of a node.
Expire_None == [some |-> FALSE, at |-> 0]
Expire_Some(at) == [some |-> TRUE, at |-> at]

\* Option<Metadata>: `some` tells Some from None.  Of the fields, size, atime,
\* mtime, perm and uid are kept: mtime is handled as atime is, and gid, ctime
\* and crtime as uid is.  Times are seconds since the epoch.
Metadata(size, atime, mtime, perm, uid) ==
    [some |-> TRUE, size |-> size, atime |-> atime, mtime |-> mtime, perm |-> perm, uid |-> uid]
Meta_None ==
    [some |-> FALSE, size |-> 0, atime |-> 0, mtime |-> 0, perm |-> 0, uid |-> 0]
\* impl From<crossroads Metadata> for Metadata, of a provider that reports a
\* size, times at the epoch, and neither permissions nor an owner.
Meta_Some(size) == Metadata(size, 0, 0, 0, 0)

FsNode(id, inode, name, metadata, provider_id) ==
    [id |-> id, inode |-> inode, name |-> name, metadata |-> metadata,
     expire_at |-> Expire_None,
     provider_id |-> provider_id, content_state |-> "ShallowReady", children |-> <<>>]

\* The nodes owned (transitively) by node i: dropping i's Arc frees them all.
RECURSIVE Owned(_, _)
Owned(nodes, i) ==
    {i} \cup UNION {Owned(nodes, nodes[i].children[k]) : k \in 1..Len(nodes[i].children)}

\* The nodes left after the children vector of `i` is replaced by `kept`
\* (a subsequence of it): every child no longer listed is freed with its subtree.
DropChildren(nodes, i, kept) ==
    LET gone == UNION {Owned(nodes, c) : c \in Range(nodes[i].children) \ Range(kept)}
    IN  [j \in (DOMAIN nodes) \ gone |->
            IF j = i THEN [nodes[j] EXCEPT !.children = kept] ELSE nodes[j]]

\* Weak::upgrade of an index entry: the inode, or None once the node is freed.
Upgrade(t, i) == IF i \in DOMAIN t.nodes THEN i ELSE None

find_with_inode(t, inode) ==
    IF inode \in t.inodes THEN Upgrade(t, inode) ELSE None

find_with_name(t, parent_inode, name) ==
    IF <<parent_inode, name>> \in DOMAIN t.names
    THEN Upgrade(t, t.names[<<parent_inode, name>>]) ELSE None

find_with_ids(t, object_id, provider_id) ==
    IF <<object_id, provider_id>> \in DOMAIN t.ids
    THEN Upgrade(t, t.ids[<<object_id, provider_id>>]) ELSE None

\* The index insertions without the one into `names`.
IndexInsert_no_name(t, inode, parent_inode, id, name, provider_id) ==
    [t EXCEPT !.inodes = @ \cup {inode},
              !.ids = Put(@, <<id, provider_id>>, inode)]

\* The three index insertions of new_provider and new_file.
IndexInsert(t, inode, parent_inode, id, name, provider_id) ==
    [t EXCEPT !.inodes = @ \cup {inode},
              !.ids = Put(@, <<id, provider_id>>, inode),
              !.names = Put(@, <<parent_inode, name>>, inode)]

new_provider(t, id, name, size, provider_id) ==
    LET inode == t.next_inode
        file == FsNode(id, inode, name, Metadata(size, 0, 0, 511, 501), provider_id)
        t1 == [t EXCEPT !.next_inode = @ + 1,
                        !.nodes = Put([@ EXCEPT ![ROOT_INO].children = Append(@, inode)],
                                      inode, file)]
    IN  IndexInsert(t1, inode, ROOT_INO, id, name, provider_id)

\* new_file handing out the lowest inode no live node holds.
new_file_lowest_free(t, parent, id, name, metadata, provider_id) ==
    LET inode == CHOOSE i \in 2..t.next_inode :
                    i \notin DOMAIN t.nodes /\ \A j \in 2..(i - 1) : j \in DOMAIN t.nodes
        file == [FsNode(id, inode, name, metadata, provider_id)
                    EXCEPT !.expire_at = Expire_Some(now + ExpireAfter)]
        t1 == [t EXCEPT !.next_inode = IF inode = @ THEN @ + 1 ELSE @,
                        !.nodes = Put([@ EXCEPT ![parent].children = Append(@, inode)],
                                      inode, file)]
    IN  IndexInsert(t1, inode, parent, id, name, provider_id)

new_file(t, parent, id, name, metadata, provider_id) ==
    LET inode == t.next_inode
        file == [FsNode(id, inode, name, metadata, provider_id)
                    EXCEPT !.expire_at = Expire_Some(now + ExpireAfter)]
        t1 == [t EXCEPT !.next_inode = @ + 1,
                        !.nodes = Put([@ EXCEPT ![parent].children = Append(@, inode)],
                                      inode, file)]
    IN  IndexInsert(t1, inode, parent, id, name, provider_id)

\* FsTree::rename: moves the name-index entry; nothing else.
tree_rename(t, parent_inode, old_name, new_name) ==
    IF <<parent_inode, old_name>> \in DOMAIN t.names
    THEN [t EXCEPT !.names = Put(Del(@, <<parent_inode, old_name>>),
                                 <<parent_inode, new_name>>,
                                 t.names[<<parent_inode, old_name>>])]
    ELSE t

\* FsTree::remove, given the node record the caller's Arc still holds.
tree_remove(t, parent_inode, node) ==
    [t EXCEPT !.inodes = @ \ {node.inode},
              !.names = Del(@, <<parent_inode, node.name>>),
              !.ids = Del(@, <<node.id, node.provider_id>>)]

\* FuseFS::new: one new_provider per registered provider, in list order.
RECURSIVE AddProviders(_, _, _)
AddProviders(t, list, k) ==
    IF k > Len(list) THEN t
    ELSE AddProviders(new_provider(t, ObjectId_root, list[k], 0, list[k]), list, k + 1)

\* FsTree::new: the synthetic root is held by the tree itself and is in no index.
FsTree_new(list) ==
    LET root == [FsNode(ObjectId_root, ROOT_INO, "/", Meta_None, "")
                    EXCEPT !.content_state = "ShallowReady"]
        blut == [nodes |-> [i \in {ROOT_INO} |-> root],
                 inodes |-> {}, names |-> EmptyFn, ids |-> EmptyFn, next_inode |-> 2]
    IN  AddProviders(blut, list, 1)

\* The node whose children vector holds inode i (None for the root).
ParentOf(t, i) ==
    IF \E p \in DOMAIN t.nodes : i \in Range(t.nodes[p].children)
    THEN CHOOSE p \in DOMAIN t.nodes : i \in Range(t.nodes[p].children)
    ELSE None


\* --------------------------------------------- the providers (environment)
\* A provider's content r maps a path to the object stored there.  Every
\* operation has a precondition under which it can succeed; a call may also
\* fail for reasons of its own, which the calling action chooses.

RemoteObj(kind, data, target) == [kind |-> kind, data |-> data, target |-> target]
RemoteDir == RemoteObj("dir", <<>>, ObjectId_root)
RemoteFile(data) == RemoteObj("file", data, ObjectId_root)
RemoteLink(target) == RemoteObj("link", <<>>, target)

IsDirAt(r, path) == path \in DOMAIN r /\ r[path].kind = "dir"
IsFileAt(r, path) == path \in DOMAIN r /\ r[path].kind = "file"
Below(r, path) == {q \in DOMAIN r : IsPrefix(path, q)}
Rebase(q, old, new) == new \o SubSeq(q, Len(old) + 1, Len(q))

\* crossroads File as read_directory returns it: id, name and metadata (size).
RemoteFileEntry(r, q) ==
    [id |-> [path |-> q, dir |-> r[q].kind = "dir"], name |-> Last(q), size |-> Len(r[q].data)]

can_read_directory(r, id) == is_directory(id) /\ IsDirAt(r, id.path)
read_directory(r, id) ==
    {RemoteFileEntry(r, q) : q \in {q \in DOMAIN r : Len(q) = Len(id.path) + 1 /\ IsPrefix(id.path, q)}}

can_create(r, parent_id, id) == IsDirAt(r, parent_id.path) /\ id.path \notin DOMAIN r
create(r, parent_id, id) ==
    Put(r, id.path, IF id.dir THEN RemoteDir ELSE RemoteFile(<<>>))

can_delete(r, id) == id.path \in DOMAIN r
delete(r, id) == [q \in (DOMAIN r) \ Below(r, id.path) |-> r[q]]

\* Moves the object at `from` (and what is below it) to the free path `to`.
MoveTree(r, from, to) ==
    LET sub == Below(r, from)
    IN  [q \in ((DOMAIN r) \ sub) \cup {Rebase(x, from, to) : x \in sub} |->
            IF q \in (DOMAIN r) \ sub THEN r[q]
            ELSE r[Rebase(q, to, from)]]

renamed_id(id, new_name) == [path |-> Append(Front(id.path), new_name), dir |-> id.dir]
can_rename(r, id, new_name) ==
    /\ id.path # <<>>
    /\ id.path \in DOMAIN r
    /\ renamed_id(id, new_name).path \notin DOMAIN r
provider_rename(r, id, new_name) == MoveTree(r, id.path, renamed_id(id, new_name).path)

moved_id(id, new_parent_id) == [path |-> Append(new_parent_id.path, Last(id.path)), dir |-> id.dir]
can_move_to(r, id, new_parent_id) ==
    /\ id.path # <<>>
    /\ id.path \in DOMAIN r
    /\ IsDirAt(r, new_parent_id.path)
    /\ ~IsPrefix(id.path, new_parent_id.path)
    /\ moved_id(id, new_parent_id).path \notin DOMAIN r
move_to(r, id, new_parent_id) == MoveTree(r, id.path, moved_id(id, new_parent_id).path)

can_read_file(r, id) == IsFileAt(r, id.path)
read_file(r, id) == r[id.path].data

can_write_file(r, id) == IsFileAt(r, id.path)
write_file(r, id, content) == [r EXCEPT ![id.path].data = content]

can_get_metadata(r, id) == id.path \in DOMAIN r
get_metadata(r, id) == Meta_Some(Len(r[id.path].data))

\* The bounds of the model, on a provider's content.
RemoteInBounds(r) ==
    \A q \in DOMAIN r : Len(q) <= MaxDepth /\ Len(r[q].data) <= MaxLen


\* ------------------------------------------------------------------ replies

ENOENT == 2
EEXIST == 17
ENOTDIR == 20

\* fuser FileAttr, the fields the handlers compute: ino, size, kind, nlink,
\* and atime, mtime, perm, uid, which are 0 unless a handler sets them.
FileAttr(ino, size, kind, nlink) ==
    [ino |-> ino, size |-> size, kind |-> kind, nlink |-> nlink,
     atime |-> 0, mtime |-> 0, perm |-> 0, uid |-> 0]
NoAttr == FileAttr(None, 0, "-", 0)
FileType(id) == IF is_directory(id) THEN "Directory" ELSE "RegularFile"
\* impl From<FsNode> for FileAttr
FileAttr_from(node) ==
    LET metadata == IF node.metadata.some THEN node.metadata
                    ELSE Metadata(0, now, now, 0, 0)
    IN  [FileAttr(node.inode, metadata.size, FileType(node.id), Len(node.children))
            EXCEPT !.atime = metadata.atime, !.mtime = metadata.mtime,
                   !.perm = metadata.perm, !.uid = metadata.uid]
ROOT_DIR_ATTR == [FileAttr(ROOT_INO, 0, "Directory", 4) EXCEPT !.perm = 493, !.uid = 501]

\* One reply of a handler.  kind "panic": the handler unwound on an unwrap and
\* never replied; "deadlock": it blocked on a node mutex it already holds.
Reply(kind, code, attr, data, entries) ==
    [kind |-> kind, code |-> code, attr |-> attr, data |-> data, entries |-> entries]
ReplyError(code) == Reply("error", code, NoAttr, <<>>, <<>>)
ReplyEntry(attr) == Reply("entry", 0, attr, <<>>, <<>>)
ReplyAttr(attr) == Reply("attr", 0, attr, <<>>, <<>>)
ReplyOk == Reply("ok", 0, NoAttr, <<>>, <<>>)
ReplyDirectory(entries) == Reply("ok", 0, NoAttr, <<>>, entries)
ReplyData(data) == Reply("data", 0, NoAttr, data, <<>>)
ReplyWritten(n) == Reply("written", n, NoAttr, <<>>, <<>>)
ReplyPanic == Reply("panic", 0, NoAttr, <<>>, <<>>)
ReplyDeadlock == Reply("deadlock", 0, NoAttr, <<>>, <<>>)
\* "spin": the handler sleeps forever in the Loading arm of get_children.
ReplySpin == Reply("spin", 0, NoAttr, <<>>, <<>>)
ReplyPending == Reply("pending", 0, NoAttr, <<>>, <<>>)
\* "unreplied": the handler returned and never called its reply object.
ReplyUnreplied == Reply("unreplied", 0, NoAttr, <<>>, <<>>)
\* reply.add(ino, offset, kind, name)
DirEntry(ino, offset, kind, name) == [ino |-> ino, offset |-> offset, kind |-> kind, name |-> name]

\* Where a handler stands while get_children's read_directory is in flight:
\* the handler (op) and its arguments, and the node being listed (dir).
\* For symlink, path holds the components of the target still to walk and
\* link the Option<ObjectId> link_id (<<>> for None, <<id>> for Some(id)).
Pc(op, dir, parent, name, offset, path, link) ==
    [op |-> op, dir |-> dir, parent |-> parent, name |-> name, offset |-> offset,
     path |-> path, link |-> link]
PcIdle == Pc("idle", None, None, "", 0, <<>>, <<>>)

\* A handler's progress: the tree, the providers' contents, its reply
\* ("pending" while the provider call of pc is in flight) and the arm of
\* get_children it went through ("none" when it did not call it).
Step(t, rem, reply, pc, arm) == [t |-> t, rem |-> rem, reply |-> reply, pc |-> pc, arm |-> arm]
Out(t, rem, reply) == Step(t, rem, reply, PcIdle, "none")
Replied(o) == o.reply.kind \notin {"panic", "deadlock", "spin", "pending", "unreplied"}

\* ------------------------------------------------- fuse.rs: get_children

\* get_children fetching again from a node that is already DeepReady.
GcArm_refetch(t, i) ==
    IF ~is_directory(t.nodes[i].id) \/ ContainsFuseMnt(t.nodes[i].id) THEN "empty"
    ELSE IF t.nodes[i].content_state = "DeepReady" THEN "ShallowReady"
    ELSE t.nodes[i].content_state

\* The arm get_children takes on node i: "empty" (not a directory, or a path
\* holding fuse/mnt), else the node's content_state.
GcArm(t, i) ==
    IF ~is_directory(t.nodes[i].id) \/ ContainsFuseMnt(t.nodes[i].id) THEN "empty"
    ELSE t.nodes[i].content_state

\* ShallowReady arm, before the provider call.
GcSetLoading(t, i) == [t EXCEPT !.nodes[i].content_state = "Loading"]

\* ShallowReady arm, the loop over the provider's answer (in the order given).
RECURSIVE GcInsert(_, _, _, _)
GcInsert(t, i, files, k) ==
    IF k > Len(files) THEN t
    ELSE GcInsert(new_file(t, i, files[k].id, files[k].name, Meta_Some(files[k].size),
                           t.nodes[i].provider_id),
                  i, files, k + 1)

\* The state the ShallowReady arm leaves the node in.
GcDoneState == "DeepReady"

\* A ShallowReady arm that returns without the assignment of line 134.
GcFinish_stays_loading(t, i, files) == GcInsert(t, i, files, 1)

\* ShallowReady arm, after the provider call returned `files`.
GcFinish(t, i, files) ==
    [GcInsert(t, i, files, 1) EXCEPT !.nodes[i].content_state = GcDoneState]

\* What get_children returns without a provider call ("empty", DeepReady arms).
GcChildren(t, i) == IF GcArm(t, i) = "empty" THEN <<>> ELSE t.nodes[i].children


\* get_children on node i, called by the handler at pc: the ShallowReady arm
\* sets Loading and leaves the provider call in flight; the Loading arm never
\* returns; the other arms return at once and the handler goes on with `after`.
GcCall(t, rem, i, pc, after) ==
    CASE GcArm(t, i) = "ShallowReady" -> Step(GcSetLoading(t, i), rem, ReplyPending, pc, "ShallowReady")
      [] GcArm(t, i) = "Loading" -> Step(t, rem, ReplySpin, PcIdle, "Loading")
      [] OTHER -> [after EXCEPT !.arm = GcArm(t, i)]

\* ------------------------------------------------ fuse/attr.rs: lookup

\* The reply of internal_lookup once `node` is settled (lines 24-30).
LookupReply(t, parent_inode, name) ==
    IF find_with_name(t, parent_inode, name) # None
    THEN ReplyEntry(FileAttr_from(t.nodes[find_with_name(t, parent_inode, name)]))
    ELSE ReplyError(ENOENT)

internal_lookup(t, rem, parent_inode, name) ==
    IF find_with_name(t, parent_inode, name) = None /\ find_with_inode(t, parent_inode) # None
    THEN GcCall(t, rem, parent_inode,
                Pc("lookup", parent_inode, parent_inode, name, 0, <<>>, <<>>),
                Out(t, rem, LookupReply(t, parent_inode, name)))
    ELSE Out(t, rem, LookupReply(t, parent_inode, name))

\* ------------------------------------------------ fuse/dir.rs: readdir

\* Lines 38-50: the entry for the child at `offset`, if there is one.
ReaddirChild(t, children, offset) ==
    IF offset - 2 < Len(children)
    THEN LET child == t.nodes[children[offset - 2 + 1]]
         IN  ReplyDirectory(<<DirEntry(child.inode, offset + 1, FileType(child.id), child.name)>>)
    ELSE ReplyDirectory(<<>>)

internal_readdir(t, rem, list, dir_inode, offset) ==
    IF dir_inode = 1
    THEN IF offset < Len(list)
         THEN LET provider == list[offset + 1]
                  node == find_with_ids(t, ObjectId_root, provider)
              IN  IF node = None THEN Out(t, rem, ReplyPanic)
                  ELSE Out(t, rem, ReplyDirectory(
                           <<DirEntry(t.nodes[node].inode, offset + 1, "Directory", provider)>>))
         ELSE Out(t, rem, ReplyDirectory(<<>>))
    ELSE CASE offset = 0 -> Out(t, rem, ReplyDirectory(<<DirEntry(1, 1, "Directory", ".")>>))
           [] offset = 1 -> Out(t, rem, ReplyDirectory(<<DirEntry(1, 2, "Directory", "..")>>))
           [] OTHER ->
                IF find_with_inode(t, dir_inode) = None THEN Out(t, rem, ReplyDirectory(<<>>))
                ELSE GcCall(t, rem, dir_inode,
                            Pc("readdir", dir_inode, None, "", offset, <<>>, <<>>),
                            Out(t, rem, ReaddirChild(t, GcChildren(t, dir_inode), offset)))

\* ------------------------------------- fuse/node.rs, dir.rs: unlink, rmdir

\* children.retain(|child| child.name != name)
Retain(t, parent, name) ==
    SelectSeq(t.nodes[parent].children, LAMBDA c : t.nodes[c].name # name)

\* internal_unlink and internal_rmdir are the same code.  `ok`: the provider
\* call succeeds if it can.
internal_unlink(t, rem, parent, name, ok) ==
    LET node == find_with_name(t, parent, name) IN
    IF node = None THEN Out(t, rem, ReplyOk)
    ELSE LET n == t.nodes[node]
             r == rem[n.provider_id]
         IN  IF ~(ok /\ can_delete(r, n.id)) THEN Out(t, rem, ReplyPanic)
             ELSE LET rem1 == [rem EXCEPT ![n.provider_id] = delete(r, n.id)]
                      t1 == IF find_with_inode(t, parent) = None THEN t
                            ELSE [t EXCEPT !.nodes = DropChildren(@, parent, Retain(t, parent, name))]
                  IN  Out(tree_remove(t1, parent, n), rem1, ReplyOk)

internal_rmdir(t, rem, parent, name, ok) == internal_unlink(t, rem, parent, name, ok)

\* ------------------------------------- fuse/node.rs, dir.rs: mknod, mkdir

CreateNode(t, rem, parent, name, isdir, ok) ==
    IF find_with_inode(t, parent) = None THEN Out(t, rem, ReplyError(ENOENT))
    ELSE LET parent_dir == t.nodes[parent]
             id == ObjectId_new(parent_dir.id, name, isdir)
             r == rem[parent_dir.provider_id]
         IN  IF ~(ok /\ can_create(r, parent_dir.id, id)) THEN Out(t, rem, ReplyPanic)
             ELSE Out(new_file(t, parent, id, name, Meta_None, parent_dir.provider_id),
                      [rem EXCEPT ![parent_dir.provider_id] = create(r, parent_dir.id, id)],
                      ReplyEntry([FileAttr(t.next_inode, 0, FileType(id), 0)
                                    EXCEPT !.atime = now, !.mtime = now,
                                           !.perm = 493, !.uid = 501]))

internal_mknod(t, rem, parent, name, ok) == CreateNode(t, rem, parent, name, FALSE, ok)
internal_mkdir(t, rem, parent, name, ok) == CreateNode(t, rem, parent, name, TRUE, ok)


\* ------------------------------------------------ fuse/node.rs: rename

\* A rename that leaves the node the object id it had.
RenameFinish_keeps_id(t, node, object_id) ==
    [t EXCEPT !.nodes = [DropChildren(@, node, <<>>) EXCEPT
                            ![node].content_state = "ShallowReady"]]

\* Lines 151-154: the node's children are dropped, it is cold again and takes
\* the id the provider returned.
RenameFinish(t, node, object_id) ==
    [t EXCEPT !.nodes = [DropChildren(@, node, <<>>) EXCEPT
                            ![node].content_state = "ShallowReady",
                            ![node].id = object_id]]

\* Lines 139-143: the provider's rename, the node's name, the name index.
RenameName(t, parent, node, name, newname) ==
    tree_rename([t EXCEPT !.nodes[node].name = newname], parent, name, newname)

\* Line 147: new_parent.lock() while the handler holds the guard of `node`
\* (line 133).  When both are the same mutex, std::sync::Mutex::lock either
\* blocks for ever or panics; neither replies.
RelockOutcomes == {"deadlock", "panic"}
Relock(outcome) == IF outcome = "panic" THEN ReplyPanic ELSE ReplyDeadlock

\* ok1, ok2: the provider's rename and move_to succeed if they can.  relock:
\* what locking a mutex the handler already holds does.
internal_rename(t, rem, parent, name, newparent, newname, ok1, ok2, relock) ==
    LET node == find_with_name(t, parent, name) IN
    IF node = None THEN Out(t, rem, ReplyError(ENOENT))
    ELSE
    LET n == t.nodes[node]
        prov == n.provider_id
        renames == name # newname
        moves == parent # newparent
        id1 == IF renames THEN renamed_id(n.id, newname) ELSE n.id
    IN  IF renames /\ ~(ok1 /\ can_rename(rem[prov], n.id, newname)) THEN Out(t, rem, ReplyPanic)
        ELSE
        LET rem1 == IF renames THEN [rem EXCEPT ![prov] = provider_rename(@, n.id, newname)] ELSE rem
            t1 == IF renames THEN RenameName(t, parent, node, name, newname) ELSE t
            new_parent == find_with_inode(t1, newparent)
        IN  IF ~moves THEN Out(RenameFinish(t1, node, id1), rem1, ReplyOk)
            ELSE IF new_parent = None THEN Out(t1, rem1, ReplyPanic)
            ELSE IF new_parent = node THEN Out(t1, rem1, Relock(relock))
            ELSE IF ~(ok2 /\ can_move_to(rem1[prov], id1, t1.nodes[new_parent].id))
                 THEN Out(t1, rem1, ReplyPanic)
            ELSE Out(RenameFinish(t1, node, moved_id(id1, t1.nodes[new_parent].id)),
                     [rem1 EXCEPT ![prov] = move_to(@, id1, t1.nodes[new_parent].id)],
                     ReplyOk)

\* --------------------------------------------- fuse/node.rs: read, write

internal_read(t, rem, ino, offset, size, ok) ==
    IF find_with_inode(t, ino) = None THEN Out(t, rem, ReplyError(ENOENT))
    ELSE LET file == t.nodes[ino]
             r == rem[file.provider_id]
         IN  IF ~(ok /\ can_read_file(r, file.id)) THEN Out(t, rem, ReplyPanic)
             ELSE LET data == read_file(r, file.id)
                      end == Min(offset + size, Len(data))
                  IN  IF offset > end THEN Out(t, rem, ReplyPanic)
                      ELSE Out(t, rem, ReplyData(Slice(data, offset, end)))

\* Line 199: the size the handler stores after a write.
WrittenSize(offset, data) == Len(data)

\* ok1, ok2: read_file and write_file succeed if they can.
internal_write(t, rem, ino, offset, data, ok1, ok2) ==
    IF find_with_inode(t, ino) = None THEN Out(t, rem, ReplyError(ENOENT))
    ELSE LET file == t.nodes[ino]
             prov == file.provider_id
         IN  IF ~(ok1 /\ can_read_file(rem[prov], file.id)) THEN Out(t, rem, ReplyPanic)
             ELSE LET file_content == read_file(rem[prov], file.id) IN
                  IF offset > 0 /\ offset > Len(file_content) THEN Out(t, rem, ReplyPanic)
                  ELSE LET content == IF offset > 0 THEN Slice(file_content, 0, offset) \o data
                                      ELSE data
                       IN  IF ~(ok2 /\ can_write_file(rem[prov], file.id)) THEN Out(t, rem, ReplyPanic)
                           ELSE LET rem1 == [rem EXCEPT ![prov] = write_file(@, file.id, content)] IN
                                IF ~file.metadata.some THEN Out(t, rem1, ReplyPanic)
                                ELSE Out([t EXCEPT !.nodes[ino].metadata.size = WrittenSize(offset, data)],
                                         rem1, ReplyWritten(Len(data)))

\* ------------------------------------------------ fuse/attr.rs: getattr

internal_getattr(t, rem, ino, ok) ==
    IF ino = 1 THEN Out(t, rem, ReplyAttr(ROOT_DIR_ATTR))
    ELSE IF find_with_inode(t, ino) = None THEN Out(t, rem, ReplyError(ENOENT))
    ELSE LET node == t.nodes[ino]
             r == rem[node.provider_id]
         IN  IF ~(ok /\ can_get_metadata(r, node.id)) THEN Out(t, rem, ReplyPanic)
             ELSE LET t1 == [t EXCEPT !.nodes[ino].metadata = get_metadata(r, node.id)]
                  IN  Out(t1, rem, ReplyAttr(FileAttr_from(t1.nodes[ino])))

\* ------------------------------------------------ fuse/attr.rs: setattr

\* Option<T>: <<>> for None, <<v>> for Some(v).
unwrap_or(opt, default) == IF Len(opt) = 0 THEN default ELSE opt[1]

\* fuser::TimeOrNow
TimeOrNow_Now == [is_now |-> TRUE, time |-> 0]
TimeOrNow_SpecificTime(time) == [is_now |-> FALSE, time |-> time]
TimeOf(time_or_now) == IF time_or_now.is_now THEN now ELSE time_or_now.time

\* The arguments of setattr that the model keeps.
SetattrFields(mode, uid, size, atime, mtime) ==
    [mode |-> mode, uid |-> uid, size |-> size, atime |-> atime, mtime |-> mtime]
NoFields == SetattrFields(<<>>, <<>>, <<>>, <<>>, <<>>)

\* Lines 56-68: the assignments to `metadata`.  _mode is not read.
SetattrOverlay(metadata, f) ==
    [metadata EXCEPT !.size = unwrap_or(f.size, @),
                     !.atime = TimeOf(unwrap_or(f.atime, TimeOrNow_Now)),
                     !.mtime = TimeOf(unwrap_or(f.mtime, TimeOrNow_Now)),
                     !.uid = unwrap_or(f.uid, @)]

\* A setattr whose assignments reach the node.
SetattrStore_writeback(t, ino, metadata) == [t EXCEPT !.nodes[ino].metadata = metadata]

\* Line 55: `if let Some(mut metadata) = node.metadata` binds a copy of the
\* Copy struct Metadata; the assignments go to the copy, which is dropped at
\* the end of the block.  The node keeps the metadata it had.
SetattrStore(t, ino, metadata) == t

internal_setattr(t, rem, ino, f) ==
    IF find_with_inode(t, ino) = None THEN Out(t, rem, ReplyError(ENOENT))
    ELSE LET node == t.nodes[ino] IN
         IF ~node.metadata.some THEN Out(t, rem, ReplyError(ENOENT))
         ELSE LET t1 == SetattrStore(t, ino, SetattrOverlay(node.metadata, f))
              IN  Out(t1, rem, ReplyAttr(FileAttr_from(t1.nodes[ino])))

\* ----------------------------------------------- fuse/symlink.rs: readlink

can_read_link(r, id) == id.path \in DOMAIN r /\ r[id.path].kind = "link"
read_link(r, id) == r[id.path].target

\* ok1, ok2: read_link and read_file succeed if they can.  The data replied
\* for a directory target are the bytes of its path, kept here as the path.
\* There is no else branch for an inode that is not indexed.
internal_readlink(t, rem, ino, ok1, ok2) ==
    IF find_with_inode(t, ino) = None THEN Out(t, rem, ReplyUnreplied)
    ELSE LET node == t.nodes[ino]
             r == rem[node.provider_id]
         IN  IF ~(ok1 /\ can_read_link(r, node.id)) THEN Out(t, rem, ReplyError(ENOENT))
             ELSE LET link == read_link(r, node.id) IN
                  IF is_directory(link) THEN Out(t, rem, ReplyData(link.path))
                  ELSE IF ok2 /\ can_read_file(r, link)
                       THEN Out(t, rem, ReplyData(read_file(r, link)))
                       ELSE Out(t, rem, ReplyError(ENOENT))


\* ------------------------------------------------ fuse/symlink.rs: symlink

can_create_link(r, parent_id, name) ==
    IsDirAt(r, parent_id.path) /\ Append(parent_id.path, name) \notin DOMAIN r
create_link(r, parent_id, name, link_id) ==
    Put(r, Append(parent_id.path, name), RemoteLink(link_id))

\* The target of a symlink: "relative" (walked from the parent), "mounted"
\* (absolute, below the mount point: comps is what strip_prefix leaves) or
\* "outside" (absolute, not below the mount point).
LinkPath(kind, comps) == [kind |-> kind, comps |-> comps]

\* fetch_children is called at symlink.rs:96 and defined nowhere in the
\* sources; this is the algorithm of spec.md section 4.3.  A cold node gets one
\* new node per returned file; a DeepReady node is reconciled: children whose
\* object id is still returned stay, the others are dropped with their index
\* entries, and ids not yet present are inserted.  A failed provider call
\* leaves the node as it was.
fetch_children(t, rem, i) ==
    LET node == t.nodes[i]
        r == rem[node.provider_id]
    IN  IF ~is_directory(node.id) \/ node.content_state = "Loading"
           \/ ~can_read_directory(r, node.id)
        THEN t
        ELSE
        LET listing == read_directory(r, node.id)
            cold == node.content_state = "ShallowReady"
            kept == IF cold THEN node.children
                    ELSE SelectSeq(node.children,
                                   LAMBDA c : \E f \in listing : f.id = t.nodes[c].id)
            gone == Range(node.children) \ Range(kept)
            keptIds == {t.nodes[kept[k]].id : k \in 1..Len(kept)}
            fresh == IF cold THEN listing ELSE {f \in listing : f.id \notin keptIds}
            files == CHOOSE s \in Perms(fresh) : TRUE
            t1 == [t EXCEPT
                    !.nodes = DropChildren(@, i, kept),
                    !.inodes = @ \ gone,
                    !.names = [k \in {x \in DOMAIN @ : @[x] \notin gone} |-> @[k]],
                    !.ids = [k \in {x \in DOMAIN @ : @[x] \notin gone} |-> @[k]]]
        IN  [GcInsert(t1, i, files, 1) EXCEPT !.nodes[i].content_state = "DeepReady"]

\* Lines 86-103: the provider's create_link, the refresh of the parent and the
\* reply.  `ok`: create_link succeeds if it can.
SymlinkCreate(t, rem, parent, name, link_id, ok) ==
    IF find_with_inode(t, parent) = None THEN Out(t, rem, ReplyError(ENOENT))
    ELSE LET parent_node == t.nodes[parent]
             prov == parent_node.provider_id
         IN  IF link_id = <<>> THEN Out(t, rem, ReplyPanic)
             ELSE IF ~(ok /\ can_create_link(rem[prov], parent_node.id, name))
                  THEN Out(t, rem, ReplyPanic)
             ELSE LET rem1 == [rem EXCEPT ![prov] = create_link(@, parent_node.id, name, link_id[1])]
                      t1 == fetch_children(t, rem1, parent)
                      node == find_with_name(t1, parent, name)
                  IN  IF node = None THEN Out(t1, rem1, ReplyPanic)
                      ELSE Out(t1, rem1, ReplyEntry(FileAttr_from(t1.nodes[node])))

RECURSIVE SymlinkWalk(_, _, _, _, _, _, _, _)
RECURSIVE SymlinkVisit(_, _, _, _, _, _, _, _, _)

\* Lines 74-83, for the component that resolved to `node`: rest is what the
\* iterator still holds.
SymlinkVisit(t, rem, parent, name, parent_inode, node, rest, link_id, ok) ==
    LET n == t.nodes[node] IN
    IF is_directory(n.id)
    THEN SymlinkWalk(t, rem, parent, name, n.inode, rest, <<n.id>>, ok)
    ELSE IF rest # <<>> THEN Out(t, rem, ReplyError(ENOTDIR))
         ELSE SymlinkWalk(t, rem, parent, name, parent_inode, rest, <<n.id>>, ok)

\* Lines 66-69: get_children returned, the component is looked up again.
SymlinkRetry(t, rem, parent, name, parent_inode, path, link_id, ok) ==
    IF find_with_name(t, parent_inode, Head(path)) = None
    THEN Out(t, rem, ReplyError(ENOENT))
    ELSE SymlinkVisit(t, rem, parent, name, parent_inode,
                      find_with_name(t, parent_inode, Head(path)), Tail(path), link_id, ok)

\* Lines 60-84: the loop over the components of the target, `path` being the
\* components not yet walked.
SymlinkWalk(t, rem, parent, name, parent_inode, path, link_id, ok) ==
    IF path = <<>> THEN SymlinkCreate(t, rem, parent, name, link_id, ok)
    ELSE IF find_with_name(t, parent_inode, Head(path)) # None
         THEN SymlinkVisit(t, rem, parent, name, parent_inode,
                           find_with_name(t, parent_inode, Head(path)), Tail(path), link_id, ok)
    ELSE IF find_with_inode(t, parent_inode) = None THEN Out(t, rem, ReplyPanic)
    ELSE GcCall(t, rem, parent_inode,
                Pc("symlink", parent_inode, parent, name, 0, path, link_id),
                SymlinkRetry(t, rem, parent, name, parent_inode, path, link_id, ok))

internal_symlink(t, rem, parent, name, link, ok) ==
    IF find_with_name(t, parent, name) # None THEN Out(t, rem, ReplyError(EEXIST))
    ELSE IF link.kind = "outside" THEN Out(t, rem, ReplyPanic)
    ELSE SymlinkWalk(t, rem, parent, name,
                     IF link.kind = "mounted" THEN 1 ELSE parent, link.comps, <<>>, ok)

\* ------------------------------------------- after get_children returned

\* The handler at pc goes on once get_children's ShallowReady arm has filled
\* the node (t is the tree after GcFinish).  `ok` is the outcome of the
\* provider call the handler makes next, if it makes one.
Resume(pc, t, rem, ok) ==
    CASE pc.op = "lookup" ->
            Step(t, rem, LookupReply(t, pc.parent, pc.name), PcIdle, "ShallowReady")
      [] pc.op = "readdir" ->
            Step(t, rem, ReaddirChild(t, t.nodes[pc.dir].children, pc.offset), PcIdle, "ShallowReady")
      [] pc.op = "symlink" ->
            [SymlinkRetry(t, rem, pc.parent, pc.name, pc.dir, pc.path, pc.link, ok)
                EXCEPT !.arm = "ShallowReady"]

\* ------------------------------------------------- blut.rs: the other tree
\* blut.rs declares a second FsTree, whose three maps hold Arc<FsNode>: a
\* node lives as long as a map names it.  A node is identified here by the
\* inode it was given, the root by 1.

VARIABLE blut

\* enum Id; val is empty for Root, the provider id for Provider and
\* id.to_string() for File.
Id_Root == [kind |-> "Root", val |-> <<>>]
Id_Provider(provider_id) == [kind |-> "Provider", val |-> <<provider_id>>]
Id_File(id) == [kind |-> "File", val |-> id]

BlutNode(kind, id, name, inode, provider_id, parent) ==
    [kind |-> kind, id |-> id, name |-> name, inode |-> inode,
     provider_id |-> provider_id, parent |-> parent, children |-> <<>>]

Blut_find_with_inode(b, inode) == IF inode \in DOMAIN b.inodes THEN b.inodes[inode] ELSE None
Blut_find_with_name(b, parent_inode, name) ==
    IF <<parent_inode, name>> \in DOMAIN b.names THEN b.names[<<parent_inode, name>>] ELSE None
Blut_find_with_ids(b, id) == IF id \in DOMAIN b.ids THEN b.ids[id] ELSE None

\* Lines 98-117.  The key of `names` is made of the new node's own inode.
Blut_new_file(b, id, name, provider_id, parent) ==
    LET inode == b.next_inode IN
    [b EXCEPT !.next_inode = @ + 1,
              !.nodes = Put(@, inode, BlutNode("File", id, name, inode, provider_id, parent)),
              !.inodes = Put(@, inode, inode),
              !.names = Put(@, <<inode, name>>, inode),
              !.ids = Put(@, Id_File(id), inode)]

\* Lines 119-135.
Blut_new_provider(b, id, name) ==
    LET inode == b.next_inode IN
    [b EXCEPT !.next_inode = @ + 1,
              !.nodes = [Put(@, inode, BlutNode("Provider", <<>>, name, inode, id, None))
                            EXCEPT ![1].children = Append(@, inode)],
              !.inodes = Put(@, inode, inode),
              !.names = Put(@, <<1, name>>, inode),
              !.ids = Put(@, Id_Provider(id), inode)]

\* Lines 77-96.
RECURSIVE Blut_add_providers(_, _, _)
Blut_add_providers(b, list, k) ==
    IF k > Len(list) THEN b
    ELSE Blut_add_providers(Blut_new_provider(b, list[k], list[k]), list, k + 1)
Blut_new(list) ==
    Blut_add_providers([nodes |-> (1 :> BlutNode("Root", <<>>, "/", 1, "", None)),
                        inodes |-> (1 :> 1),
                        names |-> (<<1, "/">> :> 1),
                        ids |-> (Id_Root :> 1),
                        next_inode |-> 2],
                       list, 1)

\* ------------------------------------------------------------------- state

VARIABLES
    \* now (declared above): the clock
    providers, \* FuseFS.providers: the registered provider ids, in list order
    fs,        \* FuseFS.tree: nodes, the three indices, next_inode
    remote,    \* the providers' contents, by provider id
    pc,        \* the handler waiting for read_directory, or PcIdle
    inflight,  \* the provider calls in flight
    held,      \* the node mutexes the running handler holds
    last,      \* the last handler that changed or listed something, its reply
    crashed,   \* the process is gone (a panic) or stuck (deadlock, endless wait)
    rdCalls    \* per node: get_children's read_directory calls since it was last cold

vars == <<now, providers, fs, remote, pc, inflight, held, last, crashed, rdCalls, blut>>

Inodes == 1..MaxInode

LastRec(op, parent, name, newparent, newname, ino, arm, reply) ==
    [op |-> op, parent |-> parent, name |-> name, newparent |-> newparent,
     newname |-> newname, ino |-> ino, arm |-> arm, reply |-> reply, set |-> NoFields]
LastNone == LastRec("none", None, "", None, "", None, "none", ReplyOk)
Rec(op, parent, name, ino) == LastRec(op, parent, name, None, "", ino, "none", ReplyOk)

\* What the providers hold when the filesystem is mounted: an empty root
\* directory each.
InitRemote(list) ==
    [p \in Range(list) |->
        (<<>> :> RemoteDir)]

\* main.rs registers the native provider "Local files".
InitWith(list) ==
    /\ now = 0
    /\ providers = list
    /\ fs = FsTree_new(list)
    /\ remote = InitRemote(list)
    /\ pc = PcIdle
    /\ inflight = <<>>
    /\ held = {}
    /\ last = LastNone
    /\ crashed = FALSE
    /\ rdCalls = [i \in Inodes |-> 0]
    /\ blut = Blut_new(list)

Init == InitWith(<<"Local files">>)

Idle == pc.op = "idle" /\ ~crashed

InBounds(st) ==
    /\ st.t.next_inode <= MaxInode + 1
    /\ \A p \in DOMAIN st.rem : RemoteInBounds(st.rem[p])

Call(op, node) == [call |-> op, node |-> node]

\* The nodes a handler made cold again: rename sets ShallowReady (node.rs 152).
MadeCold(rec, st) ==
    IF rec.op = "rename" /\ st.reply.kind = "ok" THEN {rec.ino} ELSE {}

\* The counters of the nodes that are gone, or cold again, start over.
Counters(t, c, cold) ==
    [i \in Inodes |-> IF i \in DOMAIN t.nodes /\ i \notin cold THEN c[i] ELSE 0]

\* `last` keeps the handlers that created, removed or renamed a node with
\* success.  Of a lookup or readdir that went through get_children it keeps
\* the node and the arm, and of a handler that ended the process the name.
Kept(rec, st) ==
    \/ rec.op \in {"mknod", "mkdir", "symlink"} /\ st.reply.kind = "entry"
    \/ rec.op \in {"unlink", "rmdir", "rename"} /\ st.reply.kind = "ok" /\ rec.ino # None
    \/ rec.op = "setattr" /\ st.reply.kind = "attr"

LastOf(rec, st) ==
    IF st.reply.kind = "pending" THEN LastNone
    ELSE IF st.reply.kind \in {"panic", "deadlock", "spin"}
    THEN [Rec(rec.op, None, "", None) EXCEPT !.reply = st.reply]
    ELSE IF Kept(rec, st) THEN [rec EXCEPT !.arm = st.arm, !.reply = st.reply]
    ELSE IF rec.op \in {"lookup", "readdir"} /\ st.arm \in {"ShallowReady", "DeepReady"}
    THEN [Rec("get_children", rec.parent, "", None) EXCEPT !.arm = st.arm]
    ELSE LastNone

\* A handler's step st becomes the next state.
Apply(st, rec) ==
    /\ InBounds(st)
    /\ fs' = st.t
    /\ remote' = st.rem
    /\ pc' = st.pc
    /\ crashed' = (st.reply.kind \in {"panic", "deadlock", "spin"})
    /\ last' = LastOf(rec, st)
    /\ IF st.reply.kind = "pending"
       THEN /\ inflight' = Append(inflight, Call("read_directory", st.pc.dir))
            /\ held' = held \cup {st.pc.dir}
            /\ rdCalls' = Counters(st.t, [rdCalls EXCEPT ![st.pc.dir] = @ + 1], {})
       ELSE /\ inflight' = <<>>
            /\ held' = {}
            /\ rdCalls' = Counters(st.t, rdCalls, MadeCold(rec, st))
    /\ UNCHANGED <<providers, now, blut>>

\* The inodes the kernel calls with: those handed out, and one never seen.
InodeArgs == 1..Min(fs.next_inode, MaxInode)
\* The names a handler is called with under `parent`.
NamesUnder(parent) == IF parent = ROOT_INO THEN Range(providers) \cup Names ELSE Names
\* The symlink targets the kernel calls with.
LinkPaths ==
    {LinkPath("relative", c) : c \in {<<>>, <<"fuse">>, <<"fuse", "mnt">>}}
    \cup {LinkPath("mounted", <<p>>) : p \in Range(providers)}
    \cup {LinkPath("mounted", <<"fuse">>), LinkPath("outside", <<>>)}

\* symlink answers EEXIST before it reads the target: one target stands for all.
SymlinkArgs(parent, name) ==
    IF find_with_name(fs, parent, name) # None THEN {LinkPath("relative", <<>>)} ELSE LinkPaths
\* rename answers ENOENT before it reads the destination: one stands for all.
RenameArgs(parent, name) ==
    IF find_with_name(fs, parent, name) = None THEN {<<parent, name>>}
    ELSE InodeArgs \X Names

Lookup(parent, name) ==
    /\ Idle
    /\ Apply(internal_lookup(fs, remote, parent, name), Rec("lookup", parent, name, None))

Readdir(dir, offset) ==
    /\ Idle
    /\ Apply(internal_readdir(fs, remote, providers, dir, offset), Rec("readdir", dir, "", None))

\* The provider answers the read_directory in flight (or fails), and the
\* handler that waited for it goes on.
ReadDirectoryReturn ==
    /\ pc.op # "idle" /\ ~crashed
    /\ \E ok \in BOOLEAN, ok2 \in IF pc.op = "symlink" THEN BOOLEAN ELSE {TRUE} :
        LET node == fs.nodes[pc.dir]
            r == remote[node.provider_id]
            rec == Rec(pc.op, pc.parent, pc.name, None)
        IN  IF ok /\ can_read_directory(r, node.id)
            THEN \E files \in Perms(read_directory(r, node.id)) :
                    Apply(Resume(pc, GcFinish(fs, pc.dir, files), remote, ok2), rec)
            ELSE Apply(Step(fs, remote, ReplyPanic, PcIdle, "ShallowReady"), rec)

\* In the actions below `ok` says whether the provider call succeeds where it
\* can; a failing call is distinguished only where the handler makes the call.

Unlink(parent, name) ==
    /\ Idle
    /\ \E ok \in BOOLEAN :
        /\ ok \/ find_with_name(fs, parent, name) # None
        /\ Apply(internal_unlink(fs, remote, parent, name, ok),
                 Rec("unlink", parent, name, find_with_name(fs, parent, name)))

Rmdir(parent, name) ==
    /\ Idle
    /\ \E ok \in BOOLEAN :
        /\ ok \/ find_with_name(fs, parent, name) # None
        /\ Apply(internal_rmdir(fs, remote, parent, name, ok),
                 Rec("rmdir", parent, name, find_with_name(fs, parent, name)))

Mknod(parent, name) ==
    /\ Idle
    /\ \E ok \in BOOLEAN :
        /\ ok \/ find_with_inode(fs, parent) # None
        /\ Apply(internal_mknod(fs, remote, parent, name, ok), Rec("mknod", parent, name, None))

Mkdir(parent, name) ==
    /\ Idle
    /\ \E ok \in BOOLEAN :
        /\ ok \/ find_with_inode(fs, parent) # None
        /\ Apply(internal_mkdir(fs, remote, parent, name, ok), Rec("mkdir", parent, name, None))

Symlink(parent, name, link) ==
    /\ Idle
    /\ \E ok \in BOOLEAN :
        /\ ok \/ internal_symlink(fs, remote, parent, name, link, TRUE).reply.kind = "entry"
        /\ Apply(internal_symlink(fs, remote, parent, name, link, ok),
                 Rec("symlink", parent, name, None))

Rename(parent, name, newparent, newname) ==
    /\ Idle
    /\ \E ok1 \in BOOLEAN, ok2 \in BOOLEAN, relock \in RelockOutcomes :
        /\ ok1 \/ ok2
        /\ (ok1 /\ ok2) \/ find_with_name(fs, parent, name) # None
        /\ relock = "deadlock" \/ (ok2 /\ newparent = find_with_name(fs, parent, name))
        /\ Apply(internal_rename(fs, remote, parent, name, newparent, newname, ok1, ok2, relock),
                 LastRec("rename", parent, name, newparent, newname,
                         find_with_name(fs, parent, name), "none", ReplyOk))

Read(ino, offset, size) ==
    /\ Idle
    /\ \E ok \in BOOLEAN :
        /\ ok \/ find_with_inode(fs, ino) # None
        /\ Apply(internal_read(fs, remote, ino, offset, size, ok), Rec("read", None, "", ino))

Write(ino, offset, data) ==
    /\ Idle
    /\ \E ok1 \in BOOLEAN, ok2 \in BOOLEAN :
        /\ ok1 \/ ok2
        /\ (ok1 /\ ok2) \/ find_with_inode(fs, ino) # None
        /\ Apply(internal_write(fs, remote, ino, offset, data, ok1, ok2), Rec("write", None, "", ino))

Getattr(ino) ==
    /\ Idle
    /\ \E ok \in BOOLEAN :
        /\ ok \/ (ino # 1 /\ find_with_inode(fs, ino) # None)
        /\ Apply(internal_getattr(fs, remote, ino, ok), Rec("getattr", None, "", ino))

\* The requests setattr is called with: nothing provided, one field provided,
\* every field provided.
SetattrArgs ==
    {NoFields,
     [NoFields EXCEPT !.mode = <<420>>],
     [NoFields EXCEPT !.uid = <<1000>>],
     [NoFields EXCEPT !.size = <<1>>],
     [NoFields EXCEPT !.atime = <<TimeOrNow_Now>>],
     [NoFields EXCEPT !.atime = <<TimeOrNow_SpecificTime(MaxTime + 1)>>],
     [NoFields EXCEPT !.mtime = <<TimeOrNow_SpecificTime(MaxTime + 1)>>],
     SetattrFields(<<420>>, <<1000>>, <<1>>, <<TimeOrNow_SpecificTime(MaxTime + 1)>>,
                   <<TimeOrNow_Now>>)}

Setattr(ino, f) ==
    /\ Idle
    /\ Apply(internal_setattr(fs, remote, ino, f),
             [Rec("setattr", None, "", ino) EXCEPT !.set = f])

Readlink(ino) ==
    /\ Idle
    /\ \E ok1 \in BOOLEAN, ok2 \in BOOLEAN :
        /\ ok1 \/ ok2
        /\ (ok1 /\ ok2) \/ find_with_inode(fs, ino) # None
        /\ Apply(internal_readlink(fs, remote, ino, ok1, ok2), Rec("readlink", None, "", ino))

\* The namespace handlers.
Next ==
    \/ \E parent \in InodeArgs : \E name \in NamesUnder(parent) : Lookup(parent, name)
    \/ \E dir \in InodeArgs, offset \in 0..MaxOffset : Readdir(dir, offset)
    \/ ReadDirectoryReturn
    \/ \E parent \in InodeArgs : \E name \in NamesUnder(parent) : Unlink(parent, name)
    \/ \E parent \in InodeArgs : \E name \in NamesUnder(parent) : Rmdir(parent, name)
    \/ \E parent \in InodeArgs, name \in Names : Mknod(parent, name)
    \/ \E parent \in InodeArgs, name \in Names : Mkdir(parent, name)
    \/ \E parent \in InodeArgs, name \in Names :
          \E link \in SymlinkArgs(parent, name) : Symlink(parent, name, link)
    \/ \E parent \in InodeArgs : \E name \in NamesUnder(parent) :
          \E new \in RenameArgs(parent, name) : Rename(parent, name, new[1], new[2])

Spec == Init /\ [][Next]_vars

\* The handlers of file content and attributes, on files made by mknod or
\* found by lookup.
NextData ==
    \/ \E parent \in InodeArgs : \E name \in NamesUnder(parent) : Lookup(parent, name)
    \/ ReadDirectoryReturn
    \/ \E parent \in InodeArgs, name \in Names : Mknod(parent, name)
    \/ \E ino \in InodeArgs : Getattr(ino)
    \/ \E ino \in InodeArgs, offset \in 0..MaxOffset, size \in 0..MaxLen : Read(ino, offset, size)
    \/ \E ino \in InodeArgs, offset \in 0..MaxOffset, data \in SeqsUpTo(Bytes, MaxLen) :
          Write(ino, offset, data)

SpecData == Init /\ [][NextData]_vars

\* ------------------------------------------- the environment: time, providers

\* A second passes.
Tick ==
    /\ Idle
    /\ now < MaxTime
    /\ now' = now + 1
    /\ last' = LastNone
    /\ UNCHANGED <<providers, fs, remote, pc, inflight, held, crashed, rdCalls, blut>>

\* The paths below a provider's root.
RemotePaths == SeqsUpTo(Names, MaxDepth) \ {<<>>}

\* Somebody else creates a file at the provider.
OutOfBandCreate(prov, path) ==
    /\ Idle
    /\ can_create(remote[prov], [path |-> Front(path), dir |-> TRUE], [path |-> path, dir |-> FALSE])
    /\ remote' = [remote EXCEPT ![prov] = create(@, [path |-> Front(path), dir |-> TRUE],
                                                 [path |-> path, dir |-> FALSE])]
    /\ last' = LastNone
    /\ UNCHANGED <<now, providers, fs, pc, inflight, held, crashed, rdCalls, blut>>

\* Somebody else deletes an object at the provider.
OutOfBandDelete(prov, path) ==
    /\ Idle
    /\ can_delete(remote[prov], [path |-> path, dir |-> IsDirAt(remote[prov], path)])
    /\ remote' = [remote EXCEPT ![prov] = delete(@, [path |-> path, dir |-> IsDirAt(remote[prov], path)])]
    /\ last' = LastNone
    /\ UNCHANGED <<now, providers, fs, pc, inflight, held, crashed, rdCalls, blut>>

\* Listing and looking up while time passes and the providers change.
NextEnv ==
    \/ \E parent \in InodeArgs : \E name \in NamesUnder(parent) : Lookup(parent, name)
    \/ \E dir \in InodeArgs, offset \in 0..MaxOffset : Readdir(dir, offset)
    \/ ReadDirectoryReturn
    \/ \E parent \in InodeArgs, name \in Names : Mkdir(parent, name)
    \/ Tick
    \/ \E prov \in Range(providers), path \in RemotePaths : OutOfBandCreate(prov, path)
    \/ \E prov \in Range(providers), path \in RemotePaths : OutOfBandDelete(prov, path)

SpecEnv == Init /\ [][NextEnv]_vars

\* The attribute and link handlers while time passes, on nodes made by mknod
\* and symlink or found by lookup.
NextAttr ==
    \/ \E parent \in InodeArgs : \E name \in NamesUnder(parent) : Lookup(parent, name)
    \/ ReadDirectoryReturn
    \/ \E parent \in InodeArgs, name \in Names : Mknod(parent, name)
    \/ \E parent \in InodeArgs, name \in Names :
          \E link \in SymlinkArgs(parent, name) : Symlink(parent, name, link)
    \/ \E ino \in InodeArgs : Getattr(ino)
    \/ \E ino \in InodeArgs, f \in SetattrArgs : Setattr(ino, f)
    \/ \E ino \in InodeArgs : Readlink(ino)
    \/ Tick

SpecAttr == Init /\ [][NextAttr]_vars

\* ------------------------------------------------- the tree of blut.rs alone

\* The provider ids and object ids the tree of blut.rs is called with.
BlutProviders == {"Local files", "Remote"}
BlutObjectIds == {<<"fuse">>, <<"mnt">>}

BlutNewFile(id, name, provider_id, parent) ==
    /\ blut.next_inode <= MaxBlutInode
    /\ blut' = Blut_new_file(blut, id, name, provider_id, parent)
    /\ UNCHANGED <<now, providers, fs, remote, pc, inflight, held, last, crashed, rdCalls>>

BlutNewProvider(id) ==
    /\ blut.next_inode <= MaxBlutInode
    /\ blut' = Blut_new_provider(blut, id, id)
    /\ UNCHANGED <<now, providers, fs, remote, pc, inflight, held, last, crashed, rdCalls>>

NextBlut ==
    \/ \E id \in BlutObjectIds, name \in Names, provider_id \in BlutProviders :
          \E parent \in DOMAIN blut.nodes : BlutNewFile(id, name, provider_id, parent)
    \/ \E id \in BlutProviders : BlutNewProvider(id)

SpecBlut == Init /\ [][NextBlut]_vars


\* ------------------------------------------------------------- properties

\* get_children's ShallowReady arm run to its end: the provider answers and
\* the handler that called goes on.
Settle(st) ==
    IF st.reply.kind # "pending" THEN st
    ELSE LET node == st.t.nodes[st.pc.dir]
             r == st.rem[node.provider_id]
         IN  IF can_read_directory(r, node.id)
             THEN Resume(st.pc,
                         GcFinish(st.t, st.pc.dir, CHOOSE f \in Perms(read_directory(r, node.id)) : TRUE),
                         st.rem, TRUE)
             ELSE Step(st.t, st.rem, ReplyPanic, PcIdle, "ShallowReady")

\* The nodes reachable from the root by descending children.
Reachable == Owned(fs.nodes, ROOT_INO)

\* C1: between handlers, every node reachable from the root (the synthetic
\* root included) is returned by find_with_inode for its inode, by
\* find_with_name for its current parent and its name, and by find_with_ids
\* for its object id and provider id.
C1_IndicesAgree ==
    Idle =>
        \A n \in Reachable :
            /\ find_with_inode(fs, n) = n
            /\ find_with_name(fs, ParentOf(fs, n), fs.nodes[n].name) = n
            /\ find_with_ids(fs, fs.nodes[n].id, fs.nodes[n].provider_id) = n

\* C2: in every reachable state no directory node has two children with the
\* same name.
C2_SiblingNamesUnique ==
    \A p \in Reachable :
        \A i, j \in 1..Len(fs.nodes[p].children) :
            i # j => fs.nodes[fs.nodes[p].children[i]].name # fs.nodes[fs.nodes[p].children[j]].name

\* C3: in every reachable state no two distinct reachable nodes carry the
\* same (provider_id, object_id) pair.
C3_ObjectsUnique ==
    \A a, b \in Reachable :
        a # b => <<fs.nodes[a].provider_id, fs.nodes[a].id>> # <<fs.nodes[b].provider_id, fs.nodes[b].id>>

\* C4: every inode in use is below next_inode, next_inode never decreases, and
\* every node a step creates gets an inode at or above the next_inode before
\* the step, hence above every inode handed out before: none is used twice.
C4_InodesNeverReused ==
    /\ \A i \in DOMAIN fs.nodes : i < fs.next_inode
    /\ [][/\ fs'.next_inode >= fs.next_inode
          /\ \A i \in DOMAIN fs'.nodes \ DOMAIN fs.nodes :
                fs.next_inode <= i /\ i < fs'.next_inode]_vars

\* A node was removed (its inode is free again) and a later mknod got a
\* greater inode.
C4_Witness ==
    /\ last.op = "mknod" /\ last.reply.kind = "entry"
    /\ \E i \in 2..(fs.next_inode - 1) : i \notin DOMAIN fs.nodes /\ i < last.reply.attr.ino

\* C5: right after a successful mknod, mkdir or symlink of name n under p,
\* lookup(p, n) replies with an entry whose inode is the one of the create
\* reply, whatever the hydration state of p.
C5_CreateThenLookup ==
    (Idle /\ last.op \in {"mknod", "mkdir", "symlink"} /\ last.reply.kind = "entry") =>
        LET l == internal_lookup(fs, remote, last.parent, last.name)
        IN  l.reply.kind = "entry" /\ l.reply.attr.ino = last.reply.attr.ino

\* A mkdir under a parent that was never listed has replied with an entry.
C5_Witness ==
    /\ Idle /\ last.op = "mkdir" /\ last.reply.kind = "entry"
    /\ fs.nodes[last.parent].content_state = "ShallowReady"

\* The names readdir(dir, offset) emits, for every offset the kernel sends.
ReaddirNames(t, rem, dir) ==
    {e.name : e \in UNION {Range(Settle(internal_readdir(t, rem, providers, dir, k)).reply.entries) :
                              k \in 0..MaxOffset}}

\* C6: whenever unlink(p, n) or rmdir(p, n) replies ok, a following
\* lookup(p, n) that replies at all replies ENOENT, and no readdir(p, offset)
\* emits an entry named n.
C6_RemovedStaysAbsent ==
    Idle =>
        \A p \in InodeArgs : \A n \in Names :
            LET u == internal_unlink(fs, remote, p, n, TRUE)
                d == internal_rmdir(fs, remote, p, n, TRUE)
                lu == Settle(internal_lookup(u.t, u.rem, p, n))
                ld == Settle(internal_lookup(d.t, d.rem, p, n))
            IN  /\ u.reply.kind = "ok" =>
                    /\ Replied(lu) => lu.reply = ReplyError(ENOENT)
                    /\ n \notin ReaddirNames(u.t, u.rem, p)
                /\ d.reply.kind = "ok" =>
                    /\ Replied(ld) => ld.reply = ReplyError(ENOENT)
                    /\ n \notin ReaddirNames(d.t, d.rem, p)

\* C7: after a successful rename(p, a, p, b) with a # b, lookup(p, a) replies
\* ENOENT and lookup(p, b) then returns the inode the node had before the
\* rename, whatever the hydration state of p.
C7_RenameInParent ==
    (Idle /\ last.op = "rename" /\ last.parent = last.newparent /\ last.name # last.newname) =>
        LET la == Settle(internal_lookup(fs, remote, last.parent, last.name))
            lb == Settle(internal_lookup(la.t, la.rem, last.parent, last.newname))
        IN  /\ la.reply = ReplyError(ENOENT)
            /\ lb.reply.kind = "entry" /\ lb.reply.attr.ino = last.ino

\* C8: after a successful rename(old_parent, name, new_parent, new_name) with
\* old_parent # new_parent, lookup(old_parent, name) replies ENOENT,
\* lookup(new_parent, new_name) returns the node's inode, and the node is a
\* child of new_parent and no longer one of old_parent.
C8_RenameAcrossParents ==
    (Idle /\ last.op = "rename" /\ last.parent # last.newparent) =>
        LET lo == Settle(internal_lookup(fs, remote, last.parent, last.name))
            ln == Settle(internal_lookup(fs, remote, last.newparent, last.newname))
        IN  /\ lo.reply = ReplyError(ENOENT)
            /\ ln.reply.kind = "entry" /\ ln.reply.attr.ino = last.ino
            /\ last.ino \in Range(fs.nodes[last.newparent].children)
            /\ last.ino \notin Range(fs.nodes[last.parent].children)

\* C9: for every byte string data, after mknod(p, n) replied with inode i,
\* write(i, 0, data) replies written(len(data)) and read(i, 0, len(data))
\* then replies exactly data, with no getattr in between.
C9_WriteThenRead ==
    (Idle /\ last.op = "mknod" /\ last.reply.kind = "entry") =>
        \A data \in SeqsUpTo(Bytes, MaxLen) :
            LET ino == last.reply.attr.ino
                w == internal_write(fs, remote, ino, 0, data, TRUE, TRUE)
                r == internal_read(w.t, w.rem, ino, 0, Len(data), TRUE)
            IN  w.reply = ReplyWritten(Len(data)) /\ r.reply = ReplyData(data)

\* The read_directory calls a handler's step makes.
CallsOf(st) == IF st.reply.kind = "pending" THEN 1 ELSE 0

\* C10: no node has two read_directory calls in flight, and two callers that
\* enter get_children one after the other on a cold directory (here through
\* readdir at offset 2) cause exactly one read_directory call in total.
C10_SingleFlight ==
    /\ \A d \in Inodes : Cardinality({k \in 1..Len(inflight) : inflight[k].node = d}) <= 1
    /\ Idle =>
        \A d \in DOMAIN fs.nodes :
            (/\ find_with_inode(fs, d) # None
             /\ is_directory(fs.nodes[d].id)
             /\ fs.nodes[d].content_state = "ShallowReady") =>
                LET c1 == internal_readdir(fs, remote, providers, d, 2)
                    s1 == Settle(c1)
                    c2 == internal_readdir(s1.t, s1.rem, providers, d, 2)
                IN  Replied(s1) => CallsOf(c1) + CallsOf(c2) = 1

\* C12: when the read_directory call of a hydration fails (the hydration ends
\* and the node is not DeepReady), the node is left in the state it was
\* entered in (ShallowReady), never Loading, and the lookup or readdir that
\* asked for it answers with an error reply.
C12_HydrationFailureRestores ==
    [][(/\ pc.op \in {"lookup", "readdir"}
        /\ pc'.op = "idle"
        /\ fs'.nodes[pc.dir].content_state # "DeepReady")
       => (/\ fs'.nodes[pc.dir].content_state = "ShallowReady"
           /\ last'.reply.kind = "error")]_vars

\* The handlers whose provider call is create or delete.
CreateOrDelete == {"mknod", "mkdir", "unlink", "rmdir"}

\* C13: when the create or delete call of mknod, mkdir, unlink or rmdir
\* fails, the handler answers with an error reply and the tree is as it was.
C13_ProviderFailureSurfaced ==
    [][(Idle /\ last'.op \in CreateOrDelete /\ remote' = remote /\ last'.reply.kind # "ok")
       => (last'.reply.kind = "error" /\ fs' = fs)]_vars

\* The node's expire_at deadline has passed / has not passed.
Expired(t, d) == t.nodes[d].expire_at.some /\ t.nodes[d].expire_at.at <= now
Fresh(t, d) == ~Expired(t, d)

\* The directories of the tree that have been hydrated.
Hydrated ==
    {d \in DOMAIN fs.nodes \ {ROOT_INO} :
        /\ find_with_inode(fs, d) # None
        /\ is_directory(fs.nodes[d].id)
        /\ fs.nodes[d].content_state = "DeepReady"}

ChildIds(t, d) == {t.nodes[t.nodes[d].children[k]].id : k \in 1..Len(t.nodes[d].children)}

\* C15: on a DeepReady directory whose expire_at has passed, the next readdir
\* makes a read_directory call, and afterwards the children are exactly the
\* objects of the provider's answer, one node each.
C15_ExpiredListingRefreshes ==
    Idle =>
        \A d \in Hydrated :
            (Expired(fs, d) /\ can_read_directory(remote[fs.nodes[d].provider_id], fs.nodes[d].id)) =>
                LET c == internal_readdir(fs, remote, providers, d, 2)
                    s == Settle(c)
                    listing == read_directory(remote[fs.nodes[d].provider_id], fs.nodes[d].id)
                IN  /\ CallsOf(c) = 1
                    /\ ChildIds(s.t, d) = {f.id : f \in listing}
                    /\ Len(s.t.nodes[d].children) = Cardinality(listing)

\* C16: a hydration by lookup or readdir changes the inode of no name whose
\* object is still at the provider: what lookup(p, n) returned before, it
\* returns afterwards.
C16_InodeStable ==
    [][(pc.op \in {"lookup", "readdir"} /\ pc'.op = "idle" /\ ~crashed') =>
        \A p \in DOMAIN fs.nodes : \A n \in Names :
            LET i == find_with_name(fs, p, n)
            IN  (i # None /\ fs.nodes[i].id.path \in DOMAIN remote[fs.nodes[i].provider_id])
                    => find_with_name(fs', p, n) = i]_vars

\* C17: for a directory p in any hydration state and a name n that has no
\* node under p, lookup(p, n) replies with an entry when the provider holds n
\* in p's directory, and with ENOENT when it does not.
C17_LookupFindsOutOfBand ==
    Idle =>
        \A p \in DOMAIN fs.nodes \ {ROOT_INO} : \A n \in Names :
            LET node == fs.nodes[p]
                r == remote[node.provider_id]
                l == Settle(internal_lookup(fs, remote, p, n))
            IN  (/\ find_with_inode(fs, p) # None
                 /\ find_with_name(fs, p, n) = None
                 /\ can_read_directory(r, node.id)) =>
                    IF Append(node.id.path, n) \in DOMAIN r
                    THEN l.reply.kind = "entry" /\ l.t.nodes[l.reply.attr.ino].name = n
                    ELSE l.reply = ReplyError(ENOENT)

\* C18: between handlers the root's children are the provider roots in
\* registration order, readdir(1, k) emits provider k as a Directory with
\* inode 2 + k for k below the number of providers and nothing above, and
\* makes no read_directory call.
C18_RootListsProviders ==
    Idle =>
        /\ fs.nodes[ROOT_INO].children = [k \in 1..Len(providers) |-> 1 + k]
        /\ \A k \in 1..Len(providers) : fs.nodes[1 + k].name = providers[k]
        /\ \A k \in 0..MaxOffset :
              LET r == internal_readdir(fs, remote, providers, ROOT_INO, k)
              IN  /\ CallsOf(r) = 0
                  /\ r.reply = IF k < Len(providers)
                                THEN ReplyDirectory(<<DirEntry(2 + k, k + 1, "Directory", providers[k + 1])>>)
                                ELSE ReplyDirectory(<<>>)

\* get_children's ShallowReady arm run to its end with the provider answering
\* `files`, in that order.
SettleWith(st, files) ==
    IF st.reply.kind # "pending" THEN st
    ELSE Resume(st.pc, GcFinish(st.t, st.pc.dir, files), st.rem, TRUE)

\* C19: listing a cold directory d with readdir at offsets 0, 1, 2, ... emits
\* "." then "..", then at offset 2 + k the k-th object of the provider's
\* answer, with the k-th inode handed out and kind Directory exactly for a
\* directory id; after the last object the reply is empty, and one
\* read_directory call is made in all.
C19_ColdListing ==
    Idle =>
        \A d \in DOMAIN fs.nodes \ {ROOT_INO} :
            (/\ find_with_inode(fs, d) # None
             /\ is_directory(fs.nodes[d].id)
             /\ fs.nodes[d].content_state = "ShallowReady"
             /\ can_read_directory(remote[fs.nodes[d].provider_id], fs.nodes[d].id)) =>
                \A files \in Perms(read_directory(remote[fs.nodes[d].provider_id], fs.nodes[d].id)) :
                    LET r0 == internal_readdir(fs, remote, providers, d, 0)
                        r1 == internal_readdir(r0.t, r0.rem, providers, d, 1)
                        c2 == internal_readdir(r1.t, r1.rem, providers, d, 2)
                        s2 == SettleWith(c2, files)
                        At(k) == IF k = 0 THEN s2
                                 ELSE internal_readdir(s2.t, s2.rem, providers, d, 2 + k)
                    IN  /\ Len(r0.reply.entries) = 1 /\ r0.reply.entries[1].name = "."
                        /\ Len(r1.reply.entries) = 1 /\ r1.reply.entries[1].name = ".."
                        /\ CallsOf(r0) + CallsOf(r1) + CallsOf(c2) = 1
                        /\ \A k \in 0..Len(files) :
                              /\ k > 0 => CallsOf(At(k)) = 0
                              /\ At(k).reply =
                                   IF k < Len(files)
                                   THEN ReplyDirectory(<<DirEntry(fs.next_inode + k, 3 + k,
                                                                 FileType(files[k + 1].id),
                                                                 files[k + 1].name)>>)
                                   ELSE ReplyDirectory(<<>>)

\* C20: for a directory d other than the root, readdir(d, 1) emits ".." with
\* the inode of the directory that holds d (1 for a provider root).
C20_DotDotIsParent ==
    Idle =>
        \A d \in DOMAIN fs.nodes \ {ROOT_INO} :
            (find_with_inode(fs, d) # None /\ is_directory(fs.nodes[d].id) /\ ParentOf(fs, d) # None) =>
                internal_readdir(fs, remote, providers, d, 1).reply
                    = ReplyDirectory(<<DirEntry(ParentOf(fs, d), 2, "Directory", "..")>>)

\* ---------------------------------------------------------------- C21..C23

\* C21: unlink(parent, name) and rmdir(parent, name) reply ENOENT, call no
\* provider and leave the tree unchanged when no node named name is under
\* parent.
C21_MissingNameIsNotFound ==
    Idle =>
        \A parent \in InodeArgs : \A name \in NamesUnder(parent) :
            find_with_name(fs, parent, name) = None =>
                \A ok \in BOOLEAN :
                    /\ internal_unlink(fs, remote, parent, name, ok)
                           = Out(fs, remote, ReplyError(ENOENT))
                    /\ internal_rmdir(fs, remote, parent, name, ok)
                           = Out(fs, remote, ReplyError(ENOENT))

\* C22: mknod, mkdir and symlink on a name that a node already holds under
\* the parent reply EEXIST, call no provider and leave the tree unchanged.
C22_ExistingNameIsEEXIST ==
    Idle =>
        \A parent \in InodeArgs : \A name \in Names :
            find_with_name(fs, parent, name) # None =>
                \A ok \in BOOLEAN :
                    /\ internal_mknod(fs, remote, parent, name, ok)
                           = Out(fs, remote, ReplyError(EEXIST))
                    /\ internal_mkdir(fs, remote, parent, name, ok)
                           = Out(fs, remote, ReplyError(EEXIST))
                    /\ \A link \in LinkPaths :
                           internal_symlink(fs, remote, parent, name, link, ok)
                               = Out(fs, remote, ReplyError(EEXIST))

\* C23: a rename onto a name that another node holds under the same parent
\* is answered with an error, and the other node keeps its name, its index
\* entries and its place among the parent's children.
C23_RenameOntoTakenNameFails ==
    Idle =>
        \A parent \in InodeArgs : \A name \in Names, newname \in Names :
            LET node == find_with_name(fs, parent, name)
                other == find_with_name(fs, parent, newname)
                o == internal_rename(fs, remote, parent, name, parent, newname, TRUE, TRUE, "deadlock")
            IN  (node # None /\ other # None /\ node # other) =>
                    /\ o.reply.kind = "error"
                    /\ find_with_name(o.t, parent, newname) = other
                    /\ find_with_inode(o.t, other) = other
                    /\ o.t.nodes[other].name = newname
                    /\ \A d \in DOMAIN fs.nodes :
                           other \in Range(fs.nodes[d].children)
                               => other \in Range(o.t.nodes[d].children)

\* ---------------------------------------------------------------- C24, C25

\* The fields of record a (an attr reply or a stored metadata) that request f
\* provides carry the provided values.
CarriesProvided(a, f) ==
    /\ Len(f.mode) > 0 => a.perm = f.mode[1]
    /\ Len(f.uid) > 0 => a.uid = f.uid[1]
    /\ Len(f.size) > 0 => a.size = f.size[1]
    /\ Len(f.atime) > 0 => a.atime = TimeOf(f.atime[1])
    /\ Len(f.mtime) > 0 => a.mtime = TimeOf(f.mtime[1])

\* The fields of record a that request f does not provide are those of b.
KeepsUnprovided(a, b, f) ==
    /\ Len(f.mode) = 0 => a.perm = b.perm
    /\ Len(f.uid) = 0 => a.uid = b.uid
    /\ Len(f.size) = 0 => a.size = b.size
    /\ Len(f.atime) = 0 => a.atime = b.atime
    /\ Len(f.mtime) = 0 => a.mtime = b.mtime

\* C24: after setattr on a node that has metadata, every provided field has
\* the provided value in the attr reply and in the node's stored metadata, as
\* a following lookup shows them.
C24_SetattrStoresProvided ==
    Idle =>
        \A ino \in InodeArgs, f \in SetattrArgs :
            LET o == internal_setattr(fs, remote, ino, f) IN
            (find_with_inode(fs, ino) # None /\ fs.nodes[ino].metadata.some) =>
                /\ o.reply.kind = "attr"
                /\ CarriesProvided(o.reply.attr, f)
                /\ CarriesProvided(o.t.nodes[ino].metadata, f)
                /\ CarriesProvided(FileAttr_from(o.t.nodes[ino]), f)

\* C25: setattr leaves every field that the request does not provide, atime
\* and mtime included, at its previous value in the stored metadata and in
\* the attr reply, and it calls no provider.
C25_SetattrKeepsUnprovided ==
    /\ Idle =>
        \A ino \in InodeArgs, f \in SetattrArgs :
            LET o == internal_setattr(fs, remote, ino, f) IN
            /\ o.rem = remote
            /\ o.pc = PcIdle
            /\ find_with_inode(fs, ino) # None =>
                   /\ o.t.nodes[ino].metadata.some = fs.nodes[ino].metadata.some
                   /\ KeepsUnprovided(o.t.nodes[ino].metadata, fs.nodes[ino].metadata, f)
            /\ o.reply.kind = "attr" =>
                   KeepsUnprovided(o.reply.attr, fs.nodes[ino].metadata, f)
    /\ (last.op = "setattr" /\ last.reply.kind = "attr") =>
           /\ inflight = <<>>
           /\ KeepsUnprovided(last.reply.attr, fs.nodes[last.ino].metadata, last.set)

\* A setattr that provided nothing was answered with an attr while the clock
\* was past the node's stored atime and mtime.
C25_Witness ==
    /\ last.op = "setattr"
    /\ last.reply.kind = "attr"
    /\ last.set = NoFields
    /\ now > fs.nodes[last.ino].metadata.atime
    /\ now > fs.nodes[last.ino].metadata.mtime

\* -------------------------------------------------------------------- C26

\* C26: a handler whose key addresses no node replies ENOENT, once, and calls
\* no provider: the inode of getattr (other than 1), setattr, read, write and
\* readlink, the parent of mknod and mkdir, the source (parent, name) of
\* rename and its destination parent.
C26_MissingKeyIsENOENT ==
    Idle =>
        LET NotFound == Out(fs, remote, ReplyError(ENOENT)) IN
        /\ \A ino \in InodeArgs : ino \notin DOMAIN fs.nodes =>
            \A ok1 \in BOOLEAN, ok2 \in BOOLEAN :
                /\ internal_getattr(fs, remote, ino, ok1) = NotFound
                /\ \A f \in SetattrArgs : internal_setattr(fs, remote, ino, f) = NotFound
                /\ \A offset \in 0..MaxOffset, size \in 0..MaxLen :
                       internal_read(fs, remote, ino, offset, size, ok1) = NotFound
                /\ \A offset \in 0..MaxOffset, data \in SeqsUpTo(Bytes, MaxLen) :
                       internal_write(fs, remote, ino, offset, data, ok1, ok2) = NotFound
                /\ internal_readlink(fs, remote, ino, ok1, ok2) = NotFound
                /\ \A name \in Names :
                       /\ internal_mknod(fs, remote, ino, name, ok1) = NotFound
                       /\ internal_mkdir(fs, remote, ino, name, ok1) = NotFound
        /\ \A parent \in InodeArgs, newparent \in InodeArgs :
            \A name \in NamesUnder(parent), newname \in Names :
                (\/ find_with_name(fs, parent, name) = None
                 \/ newparent \notin DOMAIN fs.nodes) =>
                    \A ok1 \in BOOLEAN, ok2 \in BOOLEAN, relock \in RelockOutcomes :
                        internal_rename(fs, remote, parent, name, newparent, newname,
                                        ok1, ok2, relock) = NotFound

\* -------------------------------------------------------------------- C27

\* The nlink the specification gives node i of tree t.
NlinkOf(t, i) ==
    IF is_directory(t.nodes[i].id) THEN Len(t.nodes[i].children) ELSE 1

\* C27: in every attribute record that lookup, getattr, setattr, mknod and
\* mkdir reply for a node, nlink is the number of children of a directory
\* and 1 for a regular file.
C27_NlinkCountsChildren ==
    Idle =>
        /\ \A parent \in InodeArgs : \A name \in NamesUnder(parent) :
            LET node == find_with_name(fs, parent, name) IN
            /\ node # None =>
                   LookupReply(fs, parent, name).attr.nlink = NlinkOf(fs, node)
            /\ name \in Names =>
                   LET o == internal_mknod(fs, remote, parent, name, TRUE)
                       d == internal_mkdir(fs, remote, parent, name, TRUE)
                   IN  /\ o.reply.kind = "entry" =>
                              o.reply.attr.nlink = NlinkOf(o.t, o.reply.attr.ino)
                       /\ d.reply.kind = "entry" =>
                              d.reply.attr.nlink = NlinkOf(d.t, d.reply.attr.ino)
        /\ \A ino \in InodeArgs :
            LET g == internal_getattr(fs, remote, ino, TRUE) IN
            /\ g.reply.kind = "attr" => g.reply.attr.nlink = NlinkOf(g.t, ino)
            /\ \A f \in SetattrArgs :
                   LET s == internal_setattr(fs, remote, ino, f) IN
                   s.reply.kind = "attr" => s.reply.attr.nlink = NlinkOf(s.t, ino)

\* -------------------------------------------------------------------- C28

\* C28: no handler holds the lock of a node while a provider call is in
\* flight.
C28_NoLockAcrossProviderCall == inflight # <<>> => held = {}

\* -------------------------------------------------------------------- C29

\* C29: no handler locks a node it already holds, so rename ends with a
\* reply for every combination of arguments, the one where newparent is the
\* inode of the renamed node included, when its provider calls succeed.
C29_RenameTerminates ==
    Idle =>
        \A parent \in InodeArgs, newparent \in InodeArgs :
            \A name \in NamesUnder(parent), newname \in Names :
                \A relock \in RelockOutcomes :
                    LET node == find_with_name(fs, parent, name)
                        n == fs.nodes[node]
                        r == remote[n.provider_id]
                        id1 == IF name # newname THEN renamed_id(n.id, newname) ELSE n.id
                        r1 == IF name # newname THEN provider_rename(r, n.id, newname) ELSE r
                        o == internal_rename(fs, remote, parent, name, newparent, newname,
                                             TRUE, TRUE, relock)
                    IN  (/\ node # None
                         /\ newparent = node
                         /\ name # newname => can_rename(r, n.id, newname)) =>
                            /\ o.reply.kind # "deadlock"
                            /\ Replied(o)

\* -------------------------------------------------------------------- C30

\* C30: a rename that succeeds has called the provider's rename with the
\* node's object id when the name changes, then move_to with the id that
\* rename returned (the node's id when the name stays) when the parent
\* changes; the node then has the id the last call returned, no children and
\* content_state ShallowReady.  With name and parent unchanged no provider
\* is called.
C30_RenameCallOrder ==
    [][(Idle /\ last'.op = "rename" /\ last'.reply.kind = "ok") =>
          LET l == last'
              n == fs.nodes[l.ino]
              prov == n.provider_id
              renames == l.name # l.newname
              moves == l.parent # l.newparent
              id1 == IF renames THEN renamed_id(n.id, l.newname) ELSE n.id
              r1 == IF renames THEN provider_rename(remote[prov], n.id, l.newname)
                    ELSE remote[prov]
              to == fs.nodes[l.newparent].id
              id2 == IF moves THEN moved_id(id1, to) ELSE id1
              r2 == IF moves THEN move_to(r1, id1, to) ELSE r1
          IN  /\ remote' = [remote EXCEPT ![prov] = r2]
              /\ fs'.nodes[l.ino].id = id2
              /\ fs'.nodes[l.ino].children = <<>>
              /\ fs'.nodes[l.ino].content_state = "ShallowReady"
              /\ (~renames /\ ~moves) => (remote' = remote /\ inflight' = <<>>)]_vars

\* A rename that changed both the name and the parent has succeeded.
C30_Witness ==
    /\ last.op = "rename"
    /\ last.reply.kind = "ok"
    /\ last.name # last.newname
    /\ last.parent # last.newparent
    /\ fs.nodes[last.ino].id.path = Append(fs.nodes[last.newparent].id.path, last.newname)

\* -------------------------------------------------------------------- C31

\* C31: when a rename changes both the name and the parent and the provider's
\* rename succeeds but its move_to fails, the handler replies an error and
\* the node's name, its object id, its children, its content_state and the
\* name index are as they were before the handler ran.
C31_RenameAllOrNothing ==
    Idle =>
        \A parent \in InodeArgs, newparent \in InodeArgs :
            \A name \in NamesUnder(parent), newname \in Names :
                LET node == find_with_name(fs, parent, name)
                    n == fs.nodes[node]
                    o == internal_rename(fs, remote, parent, name, newparent, newname,
                                         TRUE, FALSE, "deadlock")
                IN  (/\ node # None
                     /\ name # newname
                     /\ parent # newparent
                     /\ find_with_inode(fs, newparent) \notin {None, node}
                     /\ can_rename(remote[n.provider_id], n.id, newname)) =>
                        /\ o.reply.kind = "error"
                        /\ o.t.names = fs.names
                        /\ o.t.nodes[node] = n

\* -------------------------------------------------------------------- C32

\* The indexed nodes whose object is a file at the provider.
Files == {i \in DOMAIN fs.nodes :
             /\ find_with_inode(fs, i) = i
             /\ can_read_file(remote[fs.nodes[i].provider_id], fs.nodes[i].id)}
ContentOf(rem, t, i) == read_file(rem[t.nodes[i].provider_id], t.nodes[i].id)

\* C32: for a file of content c, write(inode, o, d) with o <= len(c) hands
\* write_file c[0..o] ++ d when o > 0 and d when o = 0 and replies
\* written(len(d)); with o > len(c) it still replies.
C32_WriteSplices ==
    Idle =>
        \A ino \in Files, o \in 0..MaxOffset, d \in SeqsUpTo(Bytes, MaxLen) :
            LET c == ContentOf(remote, fs, ino)
                w == internal_write(fs, remote, ino, o, d, TRUE, TRUE)
            IN  /\ o <= Len(c) =>
                       /\ ContentOf(w.rem, fs, ino) = (IF o > 0 THEN Slice(c, 0, o) \o d ELSE d)
                       /\ w.reply = ReplyWritten(Len(d))
                /\ o > Len(c) => Replied(w)

\* -------------------------------------------------------------------- C33

\* C33: after a write that replied written, the node's metadata.size is the
\* length of the content handed to the provider, so that the size lookup
\* reports is the number of bytes read returns.
C33_SizeFollowsWrite ==
    Idle =>
        \A ino \in Files, o \in 0..MaxOffset, d \in SeqsUpTo(Bytes, MaxLen) :
            LET w == internal_write(fs, remote, ino, o, d, TRUE, TRUE) IN
            w.reply.kind = "written" =>
                /\ w.t.nodes[ino].metadata.size = Len(ContentOf(w.rem, w.t, ino))
                /\ FileAttr_from(w.t.nodes[ino]).size
                       = Len(internal_read(w.t, w.rem, ino, 0, o + Len(d), TRUE).reply.data)

\* -------------------------------------------------------------------- C34

\* C34: for a file of content c, read(inode, o, s) replies the bytes of c
\* from o up to min(o + s, len(c)), and empty data when o >= len(c).
C34_ReadSlices ==
    Idle =>
        \A ino \in Files, o \in 0..MaxOffset, s \in 0..MaxLen :
            LET c == ContentOf(remote, fs, ino)
                r == internal_read(fs, remote, ino, o, s, TRUE)
            IN  r = Out(fs, remote,
                        ReplyData(IF o >= Len(c) THEN <<>>
                                  ELSE Slice(c, o, Min(o + s, Len(c)))))

\* -------------------------------------------------------------------- C35

\* The handler's step o of symlink(parent, name, _) answered `code`, called no
\* create_link and made no node for name.
SymlinkRefused(o, parent, name, codes) ==
    /\ o.reply.kind = "error" /\ o.reply.code \in codes
    /\ o.rem = remote
    /\ find_with_name(o.t, parent, name) = None

\* C35: symlink replies ENOENT when a component of the target is missing,
\* the empty target and an absolute target whose first component is no
\* provider root included, and ENOTDIR when a component that is not the last
\* is no directory; it then calls no create_link and makes no node for name.
C35_SymlinkUnresolved ==
    Idle =>
        \A parent \in InodeArgs, name \in Names :
            (find_with_inode(fs, parent) # None /\ find_with_name(fs, parent, name) = None) =>
                /\ SymlinkRefused(internal_symlink(fs, remote, parent, name,
                                                   LinkPath("relative", <<>>), TRUE),
                                  parent, name, {ENOENT})
                /\ \A c \in Names \ Range(providers) :
                       SymlinkRefused(internal_symlink(fs, remote, parent, name,
                                                       LinkPath("mounted", <<c>>), TRUE),
                                      parent, name, {ENOENT})
                /\ \A link \in {l \in LinkPaths : l.kind # "outside"} :
                       LET o == Settle(Settle(internal_symlink(fs, remote, parent, name, link, TRUE)))
                       IN  o.reply.kind = "error" =>
                               /\ o.reply.code \in {ENOENT, ENOTDIR}
                               /\ o.rem = remote

\* -------------------------------------------------------------------- C36

\* C36: while the process runs (every provider call so far has succeeded), a
\* node is Loading only while a read_directory for it is in flight; between
\* handlers no node is Loading.
C36_LoadingOnlyInFlight ==
    ~crashed =>
        /\ \A i \in DOMAIN fs.nodes :
               fs.nodes[i].content_state = "Loading" =>
                   \E k \in DOMAIN inflight : inflight[k] = Call("read_directory", i)
        /\ Idle => (inflight = <<>> /\ \A i \in DOMAIN fs.nodes :
                                          fs.nodes[i].content_state # "Loading")

\* A get_children that went through the ShallowReady arm has returned and
\* its handler is over.
C36_Witness ==
    /\ Idle
    /\ last.op = "get_children"
    /\ last.arm = "ShallowReady"
    /\ fs.nodes[last.parent].content_state = "DeepReady"

\* -------------------------------------------------------------------- C37

\* Inode g resolves in tree t through one of the three indices.
Resolvable(t, g) ==
    \/ find_with_inode(t, g) = g
    \/ \E k \in DOMAIN t.names : find_with_name(t, k[1], k[2]) = g
    \/ \E k \in DOMAIN t.ids : find_with_ids(t, k[1], k[2]) = g

\* C37: after an unlink or rmdir of a node, the node and its former
\* descendants, and after a rename the former descendants of the renamed
\* node, are found through none of the three indices, and getattr and read
\* of their inodes reply ENOENT.
C37_EvictedUnresolvable ==
    [][(Idle /\ last'.op \in {"unlink", "rmdir", "rename"} /\ last'.reply.kind = "ok"
             /\ last'.ino # None) =>
          LET gone == IF last'.op = "rename" THEN Owned(fs.nodes, last'.ino) \ {last'.ino}
                      ELSE Owned(fs.nodes, last'.ino)
          IN  \A g \in gone :
                  /\ ~Resolvable(fs', g)
                  /\ internal_getattr(fs', remote', g, TRUE).reply = ReplyError(ENOENT)
                  /\ internal_read(fs', remote', g, 0, 0, TRUE).reply = ReplyError(ENOENT)]_vars

\* -------------------------------------------------------------------- C38

\* Node g of tree b is returned by find_with_ids for some id.
BlutResolvable(b, g) == \E k \in DOMAIN b.ids : Blut_find_with_ids(b, k) = g

\* C38: in the tree of blut.rs, a file made by new_file under a parent is
\* returned by find_with_name(inode of the parent, name), and a file of
\* another provider that has the same object id stays resolvable by
\* find_with_ids.
C38_BlutFileResolvable ==
    [][(/\ blut'.next_inode = blut.next_inode + 1
        /\ blut'.nodes[blut.next_inode].kind = "File") =>
          LET f == blut.next_inode
              n == blut'.nodes[f]
          IN  /\ Blut_find_with_name(blut', n.parent, n.name) = f
              /\ BlutResolvable(blut', f)
              /\ \A g \in DOMAIN blut.nodes :
                     (/\ blut.nodes[g].kind = "File"
                      /\ blut.nodes[g].id = n.id
                      /\ blut.nodes[g].provider_id # n.provider_id
                      /\ BlutResolvable(blut, g)) => BlutResolvable(blut', g)]_vars

====
